---------------------------- MODULE Spec2Model ----------------------------
(***************************************************************************)
(* A model of MiniRAG (src/rag_engine.py): the SQLite-backed store of      *)
(* chunk rows and the file ledger, the reconciliation pass                 *)
(* _sync_index_with_files, the in-memory index and the cached query; and   *)
(* of the handlers of the Telegram bot (src/bot.py) that call it.          *)
(*                                                                         *)
(* Text is a sequence of one-character strings.  The state holds a text by *)
(* its name in the table TextOf (a content of 151 words is 301 characters  *)
(* long); every operation on text works on the characters.  A digest       *)
(* (sha1, md5) is a polynomial hash of the characters; the texts of the    *)
(* model have distinct digests (DigestsDistinct).                          *)
(* The embedding oracle is a fixed deterministic stub (letter counts); a   *)
(* call of it may fail.  A similarity score is kept exact, as the pair     *)
(* <<dot, squared norm product>>, instead of a float.                      *)
(*                                                                         *)
(* The database is two values: disk, the committed state that survives a   *)
(* crash, and conn, what the open connection sees (disk plus the changes   *)
(* of the transaction that is still open).  conn.commit() copies conn to   *)
(* disk; a crash or the end of the process drops conn.                     *)
(*                                                                         *)
(* The folder is edited only between passes; a read of a file may fail at  *)
(* any read.                                                               *)
(***************************************************************************)
EXTENDS Integers, Sequences, FiniteSets, TLC

\* ------------------------------------------------------------------------
\* Bounds of the model
\* ------------------------------------------------------------------------
MaxEdits == 2
MaxPasses == 2
FMaxEdits == 3
FMaxPasses == 2
QMaxEdits == 2
QMaxPasses == 2
MaxQueries == 2
MaxTextLen == 5
MaxChunkSize == 3
BMaxQueries == 2
HMaxQueries == 5

\* ------------------------------------------------------------------------
\* Program constants
\* ------------------------------------------------------------------------
CHUNK_SIZE == 150

\* ------------------------------------------------------------------------
\* Text
\* ------------------------------------------------------------------------
Str(n, c) == [i \in 1..n |-> c]

IsSpace(c) == c \in {" ", "\n", "\t"}

\* str.split(): the maximal runs of non-whitespace characters, in order.
\* A word starts where a non-whitespace character follows whitespace or the
\* start of the text, and runs to the last character before the next
\* whitespace or the end.
split(text) ==
    LET n == Len(text)
        starts == { i \in 1..n :
                      /\ ~IsSpace(text[i])
                      /\ (i = 1 \/ IsSpace(text[i - 1])) }
        ends == { i \in 1..n :
                    /\ ~IsSpace(text[i])
                    /\ (i = n \/ IsSpace(text[i + 1])) }
        nth(S, j) == CHOOSE i \in S : Cardinality({ m \in S : m <= i }) = j
    IN  [j \in 1..Cardinality(starts) |->
            SubSeq(text, nth(starts, j), nth(ends, j))]

\* " ".join(words), halving the list so that the recursion stays shallow
RECURSIVE join(_)
join(words) ==
    IF words = << >> THEN << >>
    ELSE IF Len(words) = 1 THEN words[1]
    ELSE LET h == Len(words) \div 2
         IN  join(SubSeq(words, 1, h)) \o << " " >>
               \o join(SubSeq(words, h + 1, Len(words)))

\* str.strip()
RECURSIVE lstrip(_)
lstrip(s) == IF s # << >> /\ IsSpace(Head(s)) THEN lstrip(Tail(s)) ELSE s

RECURSIVE rstrip(_)
rstrip(s) ==
    IF s # << >> /\ IsSpace(s[Len(s)]) THEN rstrip(SubSeq(s, 1, Len(s) - 1)) ELSE s

strip(s) == rstrip(lstrip(s))

\* str.lower() on the characters file names are made of
LowerChar(c) ==
    CASE c = "A" -> "a" [] c = "B" -> "b" [] c = "C" -> "c" [] c = "D" -> "d"
      [] c = "M" -> "m" [] c = "T" -> "t" [] c = "X" -> "x" [] c = "P" -> "p"
      [] c = "F" -> "f" [] OTHER -> c

lower(s) == [i \in 1..Len(s) |-> LowerChar(s[i])]

endswith(s, suffix) ==
    /\ Len(s) >= Len(suffix)
    /\ SubSeq(s, Len(s) - Len(suffix) + 1, Len(s)) = suffix

\* Python's a[start:] for a possibly negative start
SliceFrom(a, start) ==
    LET n == Len(a)
        s == IF start < 0 THEN (IF n + start < 0 THEN 0 ELSE n + start)
             ELSE (IF start > n THEN n ELSE start)
    IN  SubSeq(a, s + 1, n)

\* a[::-1]
Reverse(a) == [i \in 1..Len(a) |-> a[Len(a) + 1 - i]]

\* ------------------------------------------------------------------------
\* Hashing, chunking, the embedding oracle
\* ------------------------------------------------------------------------
\* A digest is a polynomial hash of the characters, tagged with the
\* algorithm: equal texts have equal digests, and the texts of this model
\* have distinct ones (DigestsDistinct below).
CharCode(c) ==
    CASE c = " " -> 1 [] c = "\n" -> 2 [] c = "\t" -> 3 [] c = "a" -> 4
      [] c = "b" -> 5 [] OTHER -> 6

RECURSIVE PowMod(_, _)
PowMod(b, e) ==
    IF e = 0 THEN 1
    ELSE LET h == PowMod(b, e \div 2)
         IN  IF e % 2 = 0 THEN (h * h) % 46337
             ELSE (((h * h) % 46337) * b) % 46337

RECURSIVE PolyHash(_, _, _)
PolyHash(text, lo, hi) ==
    IF lo > hi THEN 0
    ELSE IF lo = hi
         THEN (CharCode(text[lo]) * PowMod(31, Len(text) - lo)) % 46337
    ELSE LET mid == (lo + hi) \div 2
         IN  (PolyHash(text, lo, mid) + PolyHash(text, mid + 1, hi)) % 46337

Digest(text) == << Len(text), PolyHash(text, 1, Len(text)) >>

\* hashlib.sha1(text.encode("utf-8")).hexdigest()
_sha1(text) == << "sha1", Digest(text) >>

\* a cache key computed from the text without its surrounding whitespace
_hashStripped(text) == << "md5", Digest(strip(text)) >>

\* hashlib.md5(text.encode("utf-8")).hexdigest()
_hash(text) == << "md5", Digest(text) >>

\* a chunker that makes every word a chunk
chunk_each_word(text, chunk_size) == split(text)

\* _chunk_text, lines 76-81: words[i:i+chunk_size] joined by a space, for i
\* in range(0, len(words), chunk_size)
_chunk_text(text, chunk_size) ==
    LET words == split(text)
        n == Len(words)
        starts == { i \in 0..(n - 1) : i % chunk_size = 0 }
        nchunks == Cardinality(starts)
        hi(j) == IF j * chunk_size < n THEN j * chunk_size ELSE n
    IN  [j \in 1..nchunks |-> join(SubSeq(words, (j - 1) * chunk_size + 1, hi(j)))]

Count(text, c) == Cardinality({ i \in 1..Len(text) : text[i] = c })

\* model.encode(text): the stub oracle, a vector of dimension 3
encode(text) == << Count(text, "a"), Count(text, "b"), 1 >>


Dot(u, v) == u[1] * v[1] + u[2] * v[2] + u[3] * v[3]

\* np.dot(e, q) / (norm(e) * (norm(q) + 1e-12)), kept exact as
\* <<dot, norm(e)^2 * norm(q)^2>>: the value is dot / sqrt(second component)
Sim(e, q) == << Dot(e, q), Dot(e, e) * Dot(q, q) >>

\* s < t for two similarities with non-negative dot products
ScoreLess(s, t) == s[1] * s[1] * t[2] < t[1] * t[1] * s[2]

\* sims.argsort(): every ascending order of the indices; numpy's default sort
\* is not stable, so equal scores may come out in any order
RECURSIVE ArgSortsOf(_, _)
ArgSortsOf(sims, S) ==
    IF S = {} THEN { << >> }
    ELSE UNION { { << i >> \o r : r \in ArgSortsOf(sims, S \ {i}) } :
                 i \in { m \in S : \A o \in S : ~ScoreLess(sims[o], sims[m]) } }

argsort(sims) == ArgSortsOf(sims, 1..Len(sims))

\* ------------------------------------------------------------------------
\* The universe the inputs are drawn from
\* ------------------------------------------------------------------------
NameTxt == << "a", ".", "t", "x", "t" >>
NameMd == << "b", ".", "M", "D" >>
NamePdf == << "c", ".", "p", "d", "f" >>
FileNames == { NameTxt, NameMd, NamePdf }

\* every text of the model, by name: the file contents, their chunks and the
\* questions
TextOf ==
    [blank |-> << " " >>,
     a     |-> << "a" >>,
     ba    |-> << "b", " ", "a" >>,
     big   |-> join(Str(CHUNK_SIZE + 1, << "a" >>)) \o << "\n" >>,
     a150  |-> join(Str(CHUNK_SIZE, << "a" >>)),
     a_sp  |-> << "a", " " >>,
     bb    |-> << "b", "b" >>,
     bbb   |-> << "b", "b", "b" >>]

TextNames == DOMAIN TextOf

\* the name of a text
Ref(text) == CHOOSE r \in TextNames : TextOf[r] = text

Blank == "blank"
TextA == "a"
TextBA == "ba"
TextBig == "big"
Contents == { Blank, TextA, TextBA, TextBig }

\* contents that score low against the question "a"
TextBB == "bb"
TextBBB == "bbb"
BotContents == { TextA, TextBB, TextBBB }

QueryTexts == { "a", "a_sp" }
Ks == { -1, 0, 1, 5 }

\* f.lower().endswith((".txt", ".md"))
Eligible(f) ==
    \/ endswith(lower(f), << ".", "t", "x", "t" >>)
    \/ endswith(lower(f), << ".", "m", "d" >>)

\* the sequences of seqs, one after the other
RECURSIVE Concat(_)
Concat(seqs) == IF seqs = << >> THEN << >> ELSE Head(seqs) \o Concat(Tail(seqs))

\* ------------------------------------------------------------------------
\* The store: tables documents (rows in id order) and files_meta (a dict)
\* ------------------------------------------------------------------------
EmptyDict == [x \in {} |-> x]

EmptyDb == [documents |-> << >>, files_meta |-> EmptyDict]

\* emb.tobytes() and np.frombuffer(emb_blob, dtype=np.float32)
tobytes(emb) == << "float32", emb >>

frombuffer(blob) == blob[2]

\* the rows _index_file inserts for one file of the given text, in order,
\* when no call fails (lines 90-102)
RowsFor(filename, text) ==
    LET chunks0 == _chunk_text(text, CHUNK_SIZE)
        kept == SelectSeq([i \in 1..Len(chunks0) |-> strip(chunks0[i])],
                          LAMBDA c : c # << >>)
    IN  [i \in 1..Len(kept) |->
            [source |-> filename, chunk |-> Ref(kept[i]),
             embedding |-> tobytes(encode(kept[i])), chunk_hash |-> _sha1(kept[i])]]

\* the rows and the digest of every content, computed once
RowsTable ==
    [f \in FileNames |-> [t \in Contents \cup BotContents |-> RowsFor(f, TextOf[t])]]

Sha1Table == [t \in Contents \cup BotContents |-> _sha1(TextOf[t])]

\* a delete that forgets its WHERE clause
DeleteEveryDocument(db, fname) == [db EXCEPT !.documents = << >>]

\* SELECT ... FROM documents WHERE source = ?
RowsOfFile(db, fname) == SelectSeq(db.documents, LAMBDA r : r.source = fname)

\* DELETE FROM documents WHERE source = ?
DeleteDocuments(db, fname) ==
    [db EXCEPT !.documents = SelectSeq(@, LAMBDA r : r.source # fname)]

\* INSERT INTO documents ... for each row of rows
InsertDocuments(db, rows) == [db EXCEPT !.documents = @ \o rows]

\* a pass that forgets the ledger entry of a new file
UpsertMetaForgotten(db, fname, sha) == db

\* INSERT OR REPLACE INTO files_meta (file, sha1) VALUES (?, ?)
UpsertMeta(db, fname, sha) ==
    [db EXCEPT !.files_meta = (fname :> sha) @@ @]

\* UPDATE files_meta SET sha1=? WHERE file=?
UpdateMeta(db, fname, sha) ==
    [db EXCEPT !.files_meta =
        [g \in DOMAIN @ |-> IF g = fname THEN sha ELSE @[g]]]

\* a pass that keeps the ledger entry of a removed file
DeleteMetaKept(db, fname) == db

\* DELETE FROM files_meta WHERE file=?
DeleteMeta(db, fname) ==
    [db EXCEPT !.files_meta = [g \in (DOMAIN @) \ {fname} |-> @[g]]]


\* ------------------------------------------------------------------------
\* State
\* ------------------------------------------------------------------------
VARIABLES
    folder,          \* the data folder: file name -> content, for the files present
    disk,            \* the committed database
    conn,            \* the database as the open connection sees it
    pc,              \* "down": no MiniRAG instance; "idle": constructed; else a
                     \* position inside _sync_index_with_files
    inInit,          \* the running pass was called from __init__
    current_meta,    \* local of _sync_index_with_files
    stored,          \* local of _sync_index_with_files
    todo,            \* the files the running loop has not visited yet
    cur,             \* << the file being indexed >>, or << >>
    chunks, sources, embeddings,   \* the in-memory index
    query_cache,     \* q_hash -> results
    cacheInfo,       \* history: q_hash -> the text and k of the call that
                     \* filled the entry, and whether the index was rebuilt
                     \* differently since
    ret,             \* history: << the outcome of the last call of query >>,
                     \* or << >> when another call came after it
    lastAbort,       \* history: << the file and cause of the raise that ended
                     \* the last pass >>, or << >>
    startDisk,       \* history: disk when the last pass started
    prevStore,       \* history: << disk at the first pass completed since the
                     \* last folder edit >>, or << >>
    passesSinceEdit, \* history: passes completed since the last folder edit (0..2)
    lastEdit,        \* history: << the file and the kind ("modify", "delete")
                     \* of the last folder edit >>, when the ledger held the
                     \* file and a pass had completed with no other edit
                     \* since; << >> after any other edit and before the first
    startConn,       \* history: << the database as the connection saw it when
                     \* the last pass started >>, or << >> when the folder
                     \* was edited since
    encoded,         \* history: the files the last pass called the oracle for
    load_rows,       \* local rows of _load_from_db: what its SELECT fetched; kept
                     \* after the return as the last full scan of the table
    user_history,    \* bot.py: uid -> the user's recent questions
    asked,           \* history: uid -> every question the user asked with
                     \* /ask since the process started, in order
    reply,           \* history: << what the last handler run did >>, or << >>
    ct_text, ct_chunk_size,        \* the arguments of a call of _chunk_text
                                   \* made on its own
    ct_result,       \* << what that call returned >>, or << >> before it
    nEdits, nPasses, nQueries,     \* counters that bound the model
    scope            \* the bounds of the run, fixed by the initial state: the
                     \* files and contents folder edits draw from, and the
                     \* numbers of edits, passes and queries

vars == << folder, disk, conn, pc, inInit, current_meta, stored, todo, cur,
           chunks, sources, embeddings, query_cache, cacheInfo, ret, lastAbort,
           startDisk, prevStore, passesSinceEdit, lastEdit, startConn, encoded,
           load_rows, user_history, asked, reply, ct_text, ct_chunk_size,
           ct_result, nEdits, nPasses, nQueries, scope >>

indexVars == << chunks, sources, embeddings >>
cacheVars == << query_cache, cacheInfo >>
localVars == << inInit, current_meta, stored, todo, cur >>
histVars == << lastAbort, startDisk, prevStore, passesSinceEdit, lastEdit,
              startConn, encoded, load_rows >>
countVars == << nEdits, nPasses, nQueries, scope >>
chunkVars == << ct_text, ct_chunk_size, ct_result >>
botVars == << user_history, asked, reply >>

\* the state before the first construction: an empty folder, an empty database
Start ==
    /\ folder = EmptyDict
    /\ disk = EmptyDb
    /\ conn = EmptyDb
    /\ pc = "down"
    /\ inInit = FALSE
    /\ current_meta = EmptyDict
    /\ stored = EmptyDict
    /\ todo = {}
    /\ cur = << >>
    /\ chunks = << >>
    /\ sources = << >>
    /\ embeddings = << >>
    /\ query_cache = EmptyDict
    /\ cacheInfo = EmptyDict
    /\ ret = << >>
    /\ lastAbort = << >>
    /\ startDisk = EmptyDb
    /\ prevStore = << >>
    /\ passesSinceEdit = 0
    /\ lastEdit = << >>
    /\ startConn = << >>
    /\ encoded = {}
    /\ load_rows = [documents |-> << >>]
    /\ user_history = EmptyDict
    /\ asked = EmptyDict
    /\ reply = << >>
    /\ nEdits = 0
    /\ nPasses = 0
    /\ nQueries = 0

\* no call of _chunk_text on its own
NoChunkCall ==
    /\ ct_text = << >>
    /\ ct_chunk_size = CHUNK_SIZE
    /\ ct_result = << >>

Init ==
    /\ Start
    /\ NoChunkCall
    /\ scope = [files |-> FileNames, contents |-> Contents,
                maxEdits |-> MaxEdits, maxPasses |-> MaxPasses, maxQueries |-> 0]

\* two eligible files, for the passes that follow one edit
InitFrame ==
    /\ Start
    /\ NoChunkCall
    /\ scope = [files |-> { NameTxt, NameMd }, contents |-> { TextA, TextBA },
                maxEdits |-> FMaxEdits, maxPasses |-> FMaxPasses, maxQueries |-> 0]

InitQuery ==
    /\ Start
    /\ NoChunkCall
    /\ scope = [files |-> { NameTxt, NamePdf }, contents |-> { TextA, TextBig },
                maxEdits |-> QMaxEdits, maxPasses |-> QMaxPasses,
                maxQueries |-> MaxQueries]

\* the texts of at most n characters over letters, a blank and a newline
TextsUpTo(n) == UNION { [1..m -> { "a", "b", " ", "\n" }] : m \in 0..n }

\* a call of _chunk_text on its own, for every text and every chunk size of
\* the bounds
InitChunk ==
    /\ Start
    /\ scope = [files |-> {}, contents |-> {}, maxEdits |-> 0, maxPasses |-> 0,
                maxQueries |-> 0]
    /\ ct_text \in TextsUpTo(MaxTextLen)
    /\ ct_chunk_size \in 1..MaxChunkSize
    /\ ct_result = << >>

\* ------------------------------------------------------------------------
\* The environment: folder edits between passes, and crashes
\* ------------------------------------------------------------------------
WritableContents(f) == IF f = NamePdf THEN { TextA } ELSE scope.contents

\* the record of one folder edit
Edit(f, kind) ==
    IF f \in DOMAIN conn.files_meta /\ passesSinceEdit >= 1
    THEN << [file |-> f, kind |-> kind] >>
    ELSE << >>

EditFolder ==
    /\ pc \in { "down", "idle" }
    /\ nEdits < scope.maxEdits
    /\ \/ \E f \in scope.files : \E t \in WritableContents(f) :
            /\ (f \in DOMAIN folder => folder[f] # t)
            /\ folder' = [g \in DOMAIN folder \cup {f} |->
                             IF g = f THEN t ELSE folder[g]]
            /\ lastEdit' = Edit(f, IF f \in DOMAIN folder THEN "modify"
                                                         ELSE "create")
       \/ \E f \in DOMAIN folder :
            /\ folder' = [g \in DOMAIN folder \ {f} |-> folder[g]]
            /\ lastEdit' = Edit(f, "delete")
    /\ nEdits' = nEdits + 1
    /\ prevStore' = << >>
    /\ passesSinceEdit' = 0
    /\ startConn' = << >>
    /\ encoded' = {}
    /\ UNCHANGED << disk, conn, pc, localVars, indexVars, cacheVars, ret,
                    lastAbort, startDisk, load_rows, nPasses, nQueries, scope,
                    chunkVars,
                    botVars >>

\* the process is gone: the open transaction is lost, as is all memory
GoDown ==
    /\ pc' = "down"
    /\ conn' = disk
    /\ inInit' = FALSE
    /\ current_meta' = EmptyDict
    /\ stored' = EmptyDict
    /\ todo' = {}
    /\ cur' = << >>
    /\ chunks' = << >>
    /\ sources' = << >>
    /\ embeddings' = << >>
    /\ query_cache' = EmptyDict
    /\ cacheInfo' = EmptyDict
    /\ ret' = << >>
    /\ user_history' = EmptyDict
    /\ asked' = EmptyDict
    /\ reply' = << >>

Crash ==
    /\ pc # "down"
    /\ GoDown
    /\ UNCHANGED << folder, disk, histVars, countVars, chunkVars >>


\* ------------------------------------------------------------------------
\* _sync_index_with_files
\* ------------------------------------------------------------------------
ResetLocals ==
    /\ inInit' = FALSE
    /\ current_meta' = EmptyDict
    /\ stored' = EmptyDict
    /\ todo' = {}
    /\ cur' = << >>

\* An exception leaves the pass.  Raised under __init__ no instance comes to
\* exist and the connection is dropped; raised under a later call the instance
\* lives on, its transaction still open with the changes connAfter holds.
Raise(init, cause, f, connAfter) ==
    /\ lastAbort' = << [file |-> f, cause |-> cause] >>
    /\ IF init
       THEN GoDown
       ELSE /\ pc' = "idle"
            /\ conn' = connAfter
            /\ ResetLocals
            /\ ret' = << >>
            /\ UNCHANGED << indexVars, cacheVars, botVars >>

\* lines 107-122: list the folder, read and digest every eligible file, load
\* the ledger
SyncBegin(init, db) ==
    LET files == { f \in DOMAIN folder : Eligible(f) }
    IN  /\ nPasses < scope.maxPasses
        /\ nPasses' = nPasses + 1
        /\ startDisk' = disk
        /\ startConn' = << db >>
        /\ encoded' = {}
        /\ \/ /\ current_meta' = [f \in files |-> Sha1Table[folder[f]]]
              /\ stored' = db.files_meta
              /\ todo' = files
              /\ cur' = << >>
              /\ inInit' = init
              /\ pc' = "loop"
              /\ conn' = db
              /\ lastAbort' = << >>
              /\ ret' = << >>
              /\ UNCHANGED botVars
              /\ IF init
                 THEN /\ chunks' = << >>
                      /\ sources' = << >>
                      /\ embeddings' = << >>
                      /\ query_cache' = EmptyDict
                      /\ cacheInfo' = EmptyDict
                 ELSE UNCHANGED << indexVars, cacheVars >>
           \/ \E f \in files : Raise(init, "read", f, db)
        /\ UNCHANGED << folder, disk, prevStore, passesSinceEdit, lastEdit,
                        load_rows, nEdits, nQueries, scope,
                    chunkVars >>

\* MiniRAG(...): __init__ opens the connection, empties the index and the
\* query cache and runs the pass
Construct ==
    /\ pc = "down"
    /\ SyncBegin(TRUE, disk)

\* a later call of _sync_index_with_files on the live instance
Resync ==
    /\ pc = "idle"
    /\ SyncBegin(FALSE, conn)

\* _index_file(path, fname), lines 86-104: read, then encode and insert chunk
\* by chunk, then commit.  The read may fail; any call of the oracle may fail.
IndexFile(fname, okPc) ==
    LET rows == RowsTable[fname][folder[fname]]
    IN  \/ /\ conn' = InsertDocuments(conn, rows)
           /\ disk' = InsertDocuments(conn, rows)
           /\ pc' = okPc
           /\ cur' = << fname >>
           /\ todo' = todo \ {fname}
           /\ encoded' = IF rows = << >> THEN encoded ELSE encoded \cup {fname}
           /\ UNCHANGED << inInit, current_meta, stored, indexVars, cacheVars,
                           ret, lastAbort, botVars >>
        \/ /\ \E j \in 1..Len(rows) :
                Raise(inInit, "oracle", fname,
                      InsertDocuments(conn, SubSeq(rows, 1, j - 1)))
           /\ encoded' = encoded \cup {fname}
           /\ UNCHANGED disk
        \/ /\ Raise(inInit, "read", fname, conn)
           /\ UNCHANGED << disk, encoded >>

\* lines 126-128: a file with no ledger entry
StepNew ==
    /\ pc = "loop"
    /\ \E fname \in todo :
        /\ fname \notin DOMAIN stored
        /\ IndexFile(fname, "ledger_new")
    /\ UNCHANGED << folder, startDisk, prevStore, passesSinceEdit, lastEdit,
                    startConn, load_rows, countVars, chunkVars >>

\* lines 129-133
StepLedgerNew ==
    /\ pc = "ledger_new"
    /\ conn' = UpsertMeta(conn, cur[1], current_meta[cur[1]])
    /\ disk' = conn'
    /\ pc' = "loop"
    /\ cur' = << >>
    /\ UNCHANGED << folder, inInit, current_meta, stored, todo, indexVars,
                    cacheVars, ret, histVars, countVars, chunkVars,
                    botVars >>

\* lines 134-137: a file whose digest differs from the ledger's
StepChangedDelete ==
    /\ pc = "loop"
    /\ \E fname \in todo :
        /\ fname \in DOMAIN stored
        /\ stored[fname] # current_meta[fname]
        /\ conn' = DeleteDocuments(conn, fname)
        /\ cur' = << fname >>
        /\ todo' = todo \ {fname}
    /\ disk' = conn'
    /\ pc' = "index_changed"
    /\ UNCHANGED << folder, inInit, current_meta, stored, indexVars, cacheVars,
                    ret, histVars, countVars, chunkVars,
                    botVars >>

\* line 138
StepChangedIndex ==
    /\ pc = "index_changed"
    /\ IndexFile(cur[1], "ledger_changed")
    /\ UNCHANGED << folder, startDisk, prevStore, passesSinceEdit, lastEdit,
                    startConn, load_rows, countVars, chunkVars >>

\* lines 139-143
StepLedgerChanged ==
    /\ pc = "ledger_changed"
    /\ conn' = UpdateMeta(conn, cur[1], current_meta[cur[1]])
    /\ disk' = conn'
    /\ pc' = "loop"
    /\ cur' = << >>
    /\ UNCHANGED << folder, inInit, current_meta, stored, todo, indexVars,
                    cacheVars, ret, histVars, countVars, chunkVars,
                    botVars >>

\* a file whose digest matches: nothing to do
StepUnchanged ==
    /\ pc = "loop"
    /\ \E fname \in todo :
        /\ fname \in DOMAIN stored
        /\ stored[fname] = current_meta[fname]
        /\ todo' = todo \ {fname}
    /\ UNCHANGED << folder, disk, conn, pc, inInit, current_meta, stored, cur,
                    indexVars, cacheVars, ret, histVars, countVars, chunkVars,
                    botVars >>

\* line 146
StepRemovedBegin ==
    /\ pc = "loop"
    /\ todo = {}
    /\ todo' = (DOMAIN stored) \ (DOMAIN current_meta)
    /\ pc' = "removed"
    /\ UNCHANGED << folder, disk, conn, inInit, current_meta, stored, cur,
                    indexVars, cacheVars, ret, histVars, countVars, chunkVars,
                    botVars >>

\* lines 147-151
StepRemoved ==
    /\ pc = "removed"
    /\ \E fname \in todo :
        /\ conn' = DeleteMeta(DeleteDocuments(conn, fname), fname)
        /\ todo' = todo \ {fname}
    /\ disk' = conn'
    /\ UNCHANGED << folder, pc, inInit, current_meta, stored, cur, indexVars,
                    cacheVars, ret, histVars, countVars, chunkVars,
                    botVars >>

\* a load that fetches nothing
LoadNothing(db) == << >>

\* _load_from_db, lines 155-179: the three sequences built from the rows
\* fetched (the scan has only the table documents)
LoadChunks(db) == [i \in 1..Len(db.documents) |-> db.documents[i].chunk]
LoadSources(db) == [i \in 1..Len(db.documents) |-> db.documents[i].source]
LoadEmbeddings(db) ==
    [i \in 1..Len(db.documents) |-> frombuffer(db.documents[i].embedding)]

\* line 153 and lines 156-168: the SELECT, the three lists, and the
\* assignment of self.chunks
StepLoad ==
    /\ pc = "removed"
    /\ todo = {}
    /\ load_rows' = [documents |-> conn.documents]
    /\ chunks' = LoadChunks(load_rows')
    /\ pc' = "load_sources"
    /\ cacheInfo' =
         [h \in DOMAIN cacheInfo |->
            [cacheInfo[h] EXCEPT !.stale =
                @ \/ /\ disk # startDisk
                     /\ << LoadChunks(conn), LoadSources(conn),
                           LoadEmbeddings(conn) >> # indexVars]]
    /\ UNCHANGED << folder, disk, conn, localVars, sources, embeddings,
                    query_cache, ret, lastAbort, startDisk, prevStore,
                    passesSinceEdit, lastEdit, startConn, encoded, countVars, chunkVars,
                    botVars >>

\* line 169: the assignment of self.sources
StepLoadSources ==
    /\ pc = "load_sources"
    /\ sources' = LoadSources(load_rows)
    /\ pc' = "load_embeddings"
    /\ UNCHANGED << folder, disk, conn, localVars, chunks, embeddings, cacheVars,
                    ret, histVars, countVars, chunkVars,
                    botVars >>

\* lines 171-177: the assignment of self.embeddings, and the return of the
\* pass
StepLoadEmbeddings ==
    /\ pc = "load_embeddings"
    /\ embeddings' = LoadEmbeddings(load_rows)
    /\ pc' = "idle"
    /\ ResetLocals
    /\ passesSinceEdit' = IF passesSinceEdit < 2 THEN passesSinceEdit + 1 ELSE 2
    /\ prevStore' = IF passesSinceEdit = 0 THEN << disk >> ELSE prevStore
    /\ UNCHANGED << folder, disk, conn, chunks, sources, cacheVars, ret,
                    lastAbort, startDisk, lastEdit, startConn, encoded, load_rows,
                    countVars, chunkVars,
                    botVars >>


\* ------------------------------------------------------------------------
\* query and clear_query_cache
\* ------------------------------------------------------------------------
\* line 197-198: the similarity of every row to the query embedding
Sims(q_emb) == [i \in 1..Len(embeddings) |-> Sim(embeddings[i], q_emb)]

\* a slice taken from the wrong end of the order
BottomK(order, k) == SubSeq(order, 1, IF k < Len(order) THEN k ELSE Len(order))

\* line 200: sims.argsort()[-k:][::-1], for one outcome of argsort
TopK(order, k) == Reverse(SliceFrom(order, -k))

\* lines 201-207
Results(idxs, sims) ==
    [n \in 1..Len(idxs) |->
        [chunk |-> chunks[idxs[n]], source |-> sources[idxs[n]],
         score |-> sims[idxs[n]]]]

\* What a call of query did: its arguments, whether it returned or raised,
\* the list returned, whether it came from the cache, the calls of the oracle,
\* the cache entry used (the text and k of the call that filled it, and whether
\* it is stale), the size of the index, and whether the call before it had the
\* same arguments and returned.
Outcome(question, k, kind, results, cached, calls, entry) ==
    [question |-> question, k |-> k, kind |-> kind, results |-> results,
     cached |-> cached, encodeCalls |-> calls, entryText |-> entry.text,
     entryK |-> entry.k, entryStale |-> entry.stale, nIndex |-> Len(chunks),
     repeat |-> /\ ret # << >>
                /\ ret[1].question = question
                /\ ret[1].k = k
                /\ ret[1].kind = "return"]

Remember(o) == ret' = << o >>

\* query(question, k), lines 187-210
QueryCall(question, k) ==
    LET q_hash == _hash(TextOf[question])
        q_emb == encode(TextOf[question])
        fresh == [text |-> question, k |-> k, stale |-> FALSE]
    IN  IF q_hash \in DOMAIN query_cache
        THEN \* lines 189-190
             /\ Remember(Outcome(question, k, "return", query_cache[q_hash],
                                 TRUE, 0, cacheInfo[q_hash]))
             /\ UNCHANGED cacheVars
        ELSE IF Len(chunks) = 0
        THEN \* lines 192-193
             /\ Remember(Outcome(question, k, "return", << >>, FALSE, 0, fresh))
             /\ UNCHANGED cacheVars
        ELSE \* line 195: the oracle fails, or lines 195-210
             \/ /\ Remember(Outcome(question, k, "raise", << >>, FALSE, 1, fresh))
                /\ UNCHANGED cacheVars
             \/ \E order \in argsort(Sims(q_emb)) :
                  LET results == Results(TopK(order, k), Sims(q_emb))
                  IN  /\ query_cache' = (q_hash :> results) @@ query_cache
                      /\ cacheInfo' = (q_hash :> fresh) @@ cacheInfo
                      /\ Remember(Outcome(question, k, "return", results,
                                          FALSE, 1, fresh))

\* a call of query by a user of MiniRAG
Query ==
    /\ pc = "idle"
    /\ nQueries < scope.maxQueries
    /\ nQueries' = nQueries + 1
    /\ \E question \in QueryTexts : \E k \in Ks : QueryCall(question, k)
    /\ UNCHANGED << folder, disk, conn, pc, localVars, indexVars, histVars,
                    nEdits, nPasses, scope, chunkVars, botVars >>

\* clear_query_cache, lines 212-213
ClearQueryCache ==
    /\ pc = "idle"
    /\ query_cache # EmptyDict
    /\ query_cache' = EmptyDict
    /\ cacheInfo' = EmptyDict
    /\ ret' = << >>
    /\ UNCHANGED << folder, disk, conn, pc, localVars, indexVars, histVars,
                    countVars, chunkVars,
                    botVars >>

\* ------------------------------------------------------------------------
\* bot.py: the handlers /ask, /summarize and /help.  The process constructs
\* MiniRAG when the module is loaded (line 30) and runs the handlers one at a
\* time after that.
\* ------------------------------------------------------------------------
Users == { 1, 2 }

\* context.args: the words after the command
NoArgs == << >>
ArgsA == << << "a" >> >>
ArgsBA == << << "b" >>, << "a" >> >>
ArgLists == { NoArgs, ArgsA, ArgsBA }

\* a history that is never trimmed
add_history_untrimmed(uh, uid, text) ==
    LET hist == IF uid \in DOMAIN uh THEN uh[uid] ELSE << >>
    IN  [u \in DOMAIN uh \cup {uid} |->
            IF u = uid THEN Append(hist, text) ELSE uh[u]]

\* add_history(uid, text), lines 39-44, on the dict uh
add_history(uh, uid, text) ==
    LET hist == IF uid \in DOMAIN uh THEN uh[uid] ELSE << >>
        appended == Append(hist, text)
        kept == IF Len(appended) > 3 THEN SliceFrom(appended, -3) ELSE appended
    IN  [u \in DOMAIN uh \cup {uid} |-> IF u = uid THEN kept ELSE uh[u]]

\* r["score"] >= 0.50 (line 82), for the score dot / sqrt(den) with dot >= 0.
\* No score of the model is exactly one half.
ScoreAtLeastHalf(score) == 4 * score[1] * score[1] >= score[2]

\* a prompt built from everything retrieved
AllRetrieved(retrieved) == retrieved

\* lines 82-84: the results that ground the answer
Grounding(retrieved) ==
    LET filtered == SelectSeq(retrieved, LAMBDA r : ScoreAtLeastHalf(r.score))
    IN  IF filtered = << >> THEN << retrieved[1] >> ELSE filtered

\* What a handler run did: the command and its user, what it came to
\* ("usage", "none": nothing found, "answer", "raise": query raised,
\* "no_recent", "summary", "help"), the list query returned, the results put
\* in the prompt, and the calls of the language model.
Did(cmd, uid, kind, retrieved, context, calls) ==
    [cmd |-> cmd, uid |-> uid, kind |-> kind, retrieved |-> retrieved,
     context |-> context, llmCalls |-> calls]

\* lines 77-117, given the outcome o of rag.query(query, k=5)
AskReply(uid, o) ==
    IF o.kind = "raise"
    THEN Did("ask", uid, "raise", << >>, << >>, 0)
    ELSE IF o.results = << >>
    THEN Did("ask", uid, "none", << >>, << >>, 0)
    ELSE Did("ask", uid, "answer", o.results, Grounding(o.results), 1)

\* the questions asked so far, with one more of user uid
Asked(all, uid, text) ==
    [u \in DOMAIN all \cup {uid} |->
        IF u \in DOMAIN all
        THEN IF u = uid THEN Append(all[u], text) ELSE all[u]
        ELSE << text >>]

\* ask, lines 67-117
Ask ==
    /\ pc = "idle"
    /\ \E uid \in scope.users : \E args \in scope.args :
        IF args = NoArgs
        THEN \* lines 68-70
             /\ reply' = << Did("ask", uid, "usage", << >>, << >>, 0) >>
             /\ UNCHANGED << user_history, asked, cacheVars, ret, nQueries >>
        ELSE \* lines 72-117
             /\ nQueries < scope.maxQueries
             /\ nQueries' = nQueries + 1
             /\ user_history' = add_history(user_history, uid, Ref(join(args)))
             /\ asked' = Asked(asked, uid, Ref(join(args)))
             /\ QueryCall(Ref(join(args)), 5)
             /\ reply' = << AskReply(uid, ret'[1]) >>
    /\ UNCHANGED << folder, disk, conn, pc, localVars, indexVars, histVars,
                    nEdits, nPasses, scope, chunkVars >>

\* summarize, lines 120-132
Summarize ==
    /\ pc = "idle"
    /\ \E uid \in scope.users :
        LET hist == IF uid \in DOMAIN user_history THEN user_history[uid]
                                                  ELSE << >>
        IN  reply' = << IF hist = << >>
                        THEN Did("summarize", uid, "no_recent", << >>, << >>, 0)
                        ELSE Did("summarize", uid, "summary", << >>, hist, 1) >>
    /\ UNCHANGED << folder, disk, conn, pc, localVars, indexVars, cacheVars, ret,
                    histVars, countVars, chunkVars, user_history, asked >>

\* help_command, lines 58-64
Help ==
    /\ pc = "idle"
    /\ \E uid \in scope.users :
        reply' = << Did("help", uid, "help", << >>, << >>, 0) >>
    /\ UNCHANGED << folder, disk, conn, pc, localVars, indexVars, cacheVars, ret,
                    histVars, countVars, chunkVars, user_history, asked >>

\* the orders in which os.listdir may give the files of S
Orders(S) ==
    { o \in [1..Cardinality(S) -> S] :
        \A i \in 1..Cardinality(S) : \A j \in 1..Cardinality(S) :
            o[i] = o[j] => i = j }

\* the database the first pass leaves when it runs to completion on an empty
\* database over the folder fl, meeting its eligible files in the order o
StoreOf(fl, o) ==
    [documents |-> Concat([i \in 1..Len(o) |-> RowsTable[o[i]][fl[o[i]]]]),
     files_meta |-> [f \in { g \in DOMAIN fl : Eligible(g) } |->
                        Sha1Table[fl[f]]]]

\* the state once bot.py is loaded: MiniRAG constructed over the folder fl
Constructed(fl) ==
    /\ folder = fl
    /\ \E o \in Orders({ g \in DOMAIN fl : Eligible(g) }) : disk = StoreOf(fl, o)
    /\ conn = disk
    /\ pc = "idle"
    /\ inInit = FALSE
    /\ current_meta = EmptyDict
    /\ stored = EmptyDict
    /\ todo = {}
    /\ cur = << >>
    /\ chunks = LoadChunks(disk)
    /\ sources = LoadSources(disk)
    /\ embeddings = LoadEmbeddings(disk)
    /\ query_cache = EmptyDict
    /\ cacheInfo = EmptyDict
    /\ ret = << >>
    /\ lastAbort = << >>
    /\ startDisk = EmptyDb
    /\ prevStore = << disk >>
    /\ passesSinceEdit = 1
    /\ lastEdit = << >>
    /\ startConn = << EmptyDb >>
    /\ encoded = { f \in DOMAIN fl : RowsOfFile(disk, f) # << >> }
    /\ load_rows = [documents |-> disk.documents]
    /\ user_history = EmptyDict
    /\ asked = EmptyDict
    /\ reply = << >>
    /\ nEdits = Cardinality(DOMAIN fl)
    /\ nPasses = 1
    /\ nQueries = 0
    /\ NoChunkCall

\* the folders with some of the files, each with one of the contents
Folders(files, contents) ==
    UNION { [S -> contents] : S \in SUBSET files }

\* one user, every folder of two files
InitBot ==
    /\ scope = [files |-> { NameTxt, NameMd }, contents |-> BotContents,
                maxEdits |-> 2, maxPasses |-> 1, maxQueries |-> BMaxQueries,
                users |-> { 1 }, args |-> ArgLists]
    /\ \E fl \in Folders(scope.files, scope.contents) : Constructed(fl)

\* two users, the folders of one file
InitHistory ==
    /\ scope = [files |-> { NameTxt }, contents |-> { TextA, TextBB },
                maxEdits |-> 1, maxPasses |-> 1, maxQueries |-> HMaxQueries,
                users |-> Users, args |-> ArgLists]
    /\ \E fl \in Folders(scope.files, scope.contents) : Constructed(fl)

\* ------------------------------------------------------------------------
\* The specification
\* ------------------------------------------------------------------------
\* the store and the reconciliation pass
Next ==
    \/ EditFolder
    \/ Crash
    \/ Construct
    \/ Resync
    \/ StepNew
    \/ StepLedgerNew
    \/ StepChangedDelete
    \/ StepChangedIndex
    \/ StepLedgerChanged
    \/ StepUnchanged
    \/ StepRemovedBegin
    \/ StepRemoved
    \/ StepLoad
    \/ StepLoadSources
    \/ StepLoadEmbeddings

Spec == Init /\ [][Next]_vars

SpecFrame == InitFrame /\ [][Next]_vars

\* the same, with the calls of query and clear_query_cache
NextQuery ==
    \/ EditFolder
    \/ Crash
    \/ Construct
    \/ Resync
    \/ StepNew
    \/ StepLedgerNew
    \/ StepChangedDelete
    \/ StepChangedIndex
    \/ StepLedgerChanged
    \/ StepUnchanged
    \/ StepRemovedBegin
    \/ StepRemoved
    \/ StepLoad
    \/ StepLoadSources
    \/ StepLoadEmbeddings
    \/ Query
    \/ ClearQueryCache

SpecQuery == InitQuery /\ [][NextQuery]_vars

\* _chunk_text(ct_text, ct_chunk_size)
ChunkText ==
    /\ ct_result = << >>
    /\ ct_result' = << _chunk_text(ct_text, ct_chunk_size) >>
    /\ UNCHANGED << folder, disk, conn, pc, localVars, indexVars, cacheVars, ret,
                    histVars, countVars, botVars, ct_text, ct_chunk_size >>

NextChunk == ChunkText

SpecChunk == InitChunk /\ [][NextChunk]_vars

\* the handlers of bot.py on the constructed MiniRAG
NextBot ==
    \/ Ask
    \/ Summarize
    \/ Help

SpecBot == InitBot /\ [][NextBot]_vars

SpecHistory == InitHistory /\ [][NextBot]_vars


\* ------------------------------------------------------------------------
\* Properties
\* ------------------------------------------------------------------------
\* the texts of the model have distinct digests
DigestsDistinct ==
    \A s \in TextNames : \A t \in TextNames :
        Digest(TextOf[s]) = Digest(TextOf[t]) => TextOf[s] = TextOf[t]

RowsOf(db, f) == SelectSeq(db.documents, LAMBDA r : r.source = f)

\* the chunk rows and the ledger entry of file f agree in db
FileAgrees(db, f) ==
    IF f \in DOMAIN db.files_meta
    THEN \E t \in Contents :
            /\ Sha1Table[t] = db.files_meta[f]
            /\ RowsOf(db, f) = RowsTable[f][t]
    ELSE RowsOf(db, f) = << >>

\* the ledger entry of f, as a set (empty when there is none)
LedgerOf(db, f) ==
    IF f \in DOMAIN db.files_meta THEN { db.files_meta[f] } ELSE {}

\* db holds exactly what the folder holds
Mirrors(db) ==
    \A f \in FileNames :
        IF f \in DOMAIN folder /\ Eligible(f)
        THEN /\ RowsOf(db, f) = RowsTable[f][folder[f]]
             /\ LedgerOf(db, f) = { Sha1Table[folder[f]] }
        ELSE /\ RowsOf(db, f) = << >>
             /\ LedgerOf(db, f) = {}

\* C1: in every committed state of the database, each file's chunk rows and
\* its ledger entry agree: with an entry, the rows are those of the content
\* the digest was computed from; with none, the file has no rows.
C1_DurableFilesAgree == \A f \in FileNames : FileAgrees(disk, f)

\* C2: once a pass has run to completion, and until the folder is edited
\* again, the committed database mirrors the folder: for every eligible file
\* present exactly the rows of its content, once each, and its digest; nothing
\* for any other file.
C2_CompletedPassMirrors ==
    (pc = "idle" /\ passesSinceEdit >= 1) => Mirrors(disk)

\* C3: a second pass completed with no folder edit since the first completed
\* leaves the committed chunk rows and ledger as the first pass left them.
C3_SecondPassChangesNothing ==
    (pc = "idle" /\ passesSinceEdit = 2) => disk = prevStore[1]

C3_Witness ==
    /\ pc = "idle"
    /\ passesSinceEdit = 2
    /\ Len(disk.documents) >= 2
    /\ disk.files_meta # EmptyDict

\* C4: when the oracle fails while a file is indexed, the pass leaves the
\* file's committed ledger entry as it was, and the file's committed rows and
\* ledger entry, which agreed when the pass started, still agree.
C4_OracleFailureKeepsAgreement ==
    (lastAbort # << >> /\ lastAbort[1].cause = "oracle"
        /\ FileAgrees(startDisk, lastAbort[1].file))
    => /\ LedgerOf(disk, lastAbort[1].file) = LedgerOf(startDisk, lastAbort[1].file)
       /\ FileAgrees(disk, lastAbort[1].file)

\* C5: when a read of a file fails during a pass, the file's committed rows
\* and ledger entry are after the pass what they were when it started.
C5_ReadFailureChangesNothing ==
    (lastAbort # << >> /\ lastAbort[1].cause = "read")
    => /\ RowsOf(disk, lastAbort[1].file) = RowsOf(startDisk, lastAbort[1].file)
       /\ LedgerOf(disk, lastAbort[1].file) = LedgerOf(startDisk, lastAbort[1].file)

\* C6: a call query(text, k) with k >= 1 that returns, returns at most k
\* results, also when its text was asked before with another k >= 1.
C6_AtMostK ==
    (ret # << >> /\ ret[1].kind = "return" /\ ret[1].k >= 1 /\ ret[1].entryK >= 1)
    => Len(ret[1].results) <= ret[1].k

\* the results list every row of the index exactly once, with its own chunk,
\* source and score
CoversIndex(results, question) ==
    LET sims == Sims(encode(TextOf[question]))
    IN  \E order \in argsort(sims) : results = Results(Reverse(order), sims)

\* C7: a call query(text, k) with k at least the number of rows of the index
\* that returns, returns every row of the index exactly once, ranked, also
\* when its text was asked before with a smaller k >= 1.
C7_LargeKReturnsAll ==
    (ret # << >> /\ ret[1].kind = "return" /\ ret[1].k >= Len(chunks)
        /\ ret[1].k >= 1 /\ ret[1].entryK >= 1 /\ ~ret[1].entryStale)
    => CoversIndex(ret[1].results, ret[1].question)

\* C8: a call query(text, k) with k zero or negative returns no list.
C8_NonPositiveKRejected ==
    (ret # << >> /\ ret[1].k <= 0 /\ ret[1].nIndex > 0)
    => ret[1].kind # "return"

\* C9: no call of query returns a cache entry that was computed against the
\* index as it was before a pass that changed the database and the index.
C9_NoStaleCachedResult ==
    (ret # << >> /\ ret[1].cached /\ ret[1].k >= 1 /\ ret[1].entryK >= 1)
    => ~ret[1].entryStale

\* C10: a call of query that follows, with nothing between, a call with the
\* same text and k that returned against a non-empty index returns the same
\* list without calling the oracle; and a list taken from the cache was
\* computed for exactly the text asked.
C10_RepeatedQueryCached ==
    [][ nQueries' = nQueries + 1
        => /\ (ret # << >> /\ ret[1].kind = "return" /\ ret[1].nIndex > 0
                 /\ ret'[1].question = ret[1].question /\ ret'[1].k = ret[1].k)
              => /\ ret'[1].kind = "return"
                 /\ ret'[1].results = ret[1].results
                 /\ ret'[1].encodeCalls = 0
           /\ ret'[1].cached => ret'[1].entryText = ret'[1].question ]_vars

C10_Witness ==
    /\ ret # << >>
    /\ ret[1].repeat
    /\ ret[1].cached
    /\ ret[1].nIndex > 0
    /\ Len(ret[1].results) >= 2

\* The pass running, or the last one run, started after a folder edit of the
\* given kind to a file the ledger held; before that edit a pass had
\* completed, with no other edit between.
OneEditThenPass(kind) ==
    /\ startConn # << >>
    /\ lastEdit # << >>
    /\ lastEdit[1].kind = kind

\* the pass has not changed the rows or the ledger entry of file g: not as
\* the live connection sees the database, and not in the committed database
\* when the pass started with nothing uncommitted
Untouched(g) ==
    /\ pc # "down" => /\ RowsOf(conn, g) = RowsOf(startConn[1], g)
                      /\ LedgerOf(conn, g) = LedgerOf(startConn[1], g)
    /\ startConn[1] = startDisk => /\ RowsOf(disk, g) = RowsOf(startDisk, g)
                                   /\ LedgerOf(disk, g) = LedgerOf(startDisk, g)

\* the ledger entry of g at the start of the pass is the digest of g's content
DigestMatches(g) ==
    /\ g \in DOMAIN folder
    /\ Eligible(g)
    /\ LedgerOf(startConn[1], g) = { Sha1Table[folder[g]] }

\* C11: when one file the ledger holds is modified after a completed pass and
\* the pass runs again, then at every step of that pass and after it the rows
\* and the ledger entry of every other file are what they were when it
\* started; and no pass calls the oracle for a file whose digest matches its
\* ledger entry.
C11_ChangeIsLocal ==
    /\ OneEditThenPass("modify")
        => \A g \in FileNames \ { lastEdit[1].file } : Untouched(g)
    /\ startConn # << >>
        => \A g \in FileNames : DigestMatches(g) => g \notin encoded

C11_Witness ==
    /\ OneEditThenPass("modify")
    /\ pc = "idle"
    /\ passesSinceEdit >= 1
    /\ encoded = { lastEdit[1].file }
    /\ RowsOf(disk, lastEdit[1].file) # RowsOf(startDisk, lastEdit[1].file)
    /\ LedgerOf(disk, lastEdit[1].file) # LedgerOf(startDisk, lastEdit[1].file)
    /\ \E g \in FileNames \ { lastEdit[1].file } :
            /\ DigestMatches(g)
            /\ RowsOf(disk, g) # << >>

\* C12: when one file the ledger holds is deleted from the folder after a
\* completed pass and the pass runs again, then at every step of that pass
\* and after it the rows and the ledger entry of every other file are what
\* they were when it started; and once the pass has completed the deleted file
\* has no row and no ledger entry.
C12_RemovalIsLocal ==
    OneEditThenPass("delete")
    => /\ \A g \in FileNames \ { lastEdit[1].file } : Untouched(g)
       /\ (pc = "idle" /\ passesSinceEdit >= 1)
            => /\ RowsOf(conn, lastEdit[1].file) = << >>
               /\ LedgerOf(conn, lastEdit[1].file) = {}
               /\ RowsOf(disk, lastEdit[1].file) = << >>
               /\ LedgerOf(disk, lastEdit[1].file) = {}

C12_Witness ==
    /\ OneEditThenPass("delete")
    /\ pc = "idle"
    /\ passesSinceEdit >= 1
    /\ RowsOf(startDisk, lastEdit[1].file) # << >>
    /\ LedgerOf(startDisk, lastEdit[1].file) # {}
    /\ \E g \in FileNames \ { lastEdit[1].file } :
            /\ RowsOf(disk, g) # << >>
            /\ LedgerOf(disk, g) # {}

\* C13: a call of query made while the in-memory index has no row returns the
\* empty list, raises nothing and does not call the oracle (here for k >= 1,
\* and when the cache holds the text, for an entry filled with k >= 1).
C13_EmptyIndexReturnsEmpty ==
    (ret # << >> /\ ret[1].nIndex = 0 /\ ret[1].k >= 1 /\ ret[1].entryK >= 1)
    => /\ ret[1].kind = "return"
       /\ ret[1].results = << >>
       /\ ret[1].encodeCalls = 0

\* the list res gives, for the rows idxs of the index in this order, each
\* row's own chunk, source and score
ReadsRows(res, idxs, sims) ==
    /\ \A p \in 1..Len(res) : \A r \in 1..Len(res) : idxs[p] = idxs[r] => p = r
    /\ \A p \in 1..Len(res) :
         res[p] = [chunk |-> chunks[idxs[p]], source |-> sources[idxs[p]],
                   score |-> sims[idxs[p]]]

\* C14: a call query(text, k) with k >= 1 that is not answered from the cache
\* and returns against a non-empty index returns min(k, n) results that read
\* distinct rows of the index, each with the row's own chunk, source and
\* score, in non-increasing order of score, and no row left out scores higher
\* than a row returned.
C14_TopKByScore ==
    (ret # << >> /\ ret[1].kind = "return" /\ ~ret[1].cached /\ ret[1].k >= 1
        /\ ret[1].nIndex > 0)
    => LET res == ret[1].results
           sims == Sims(encode(TextOf[ret[1].question]))
           n == Len(chunks)
       IN  /\ Len(res) = IF ret[1].k < n THEN ret[1].k ELSE n
           /\ \A p \in 1..Len(res) : \A r \in 1..Len(res) :
                 p < r => ~ScoreLess(res[p].score, res[r].score)
           /\ \E idxs \in [1..Len(res) -> 1..n] :
                 /\ ReadsRows(res, idxs, sims)
                 /\ \A i \in 1..n :
                      (\A p \in 1..Len(res) : idxs[p] # i)
                      => \A p \in 1..Len(res) : ~ScoreLess(res[p].score, sims[i])

C14_Witness ==
    /\ ret # << >>
    /\ ret[1].kind = "return"
    /\ ~ret[1].cached
    /\ ret[1].k = 1
    /\ ret[1].nIndex = 2
    /\ Len(ret[1].results) = 1
    /\ \E i \in 1..Len(chunks) :
         ScoreLess(Sim(embeddings[i], encode(TextOf[ret[1].question])),
                   ret[1].results[1].score)

C16_ChunksPartitionWords ==
    ct_result # << >>
    => LET out == ct_result[1]
           words == split(ct_text)
           N == Len(words)
           W == ct_chunk_size
           wordsOf == [j \in 1..Len(out) |-> split(out[j])]
       IN  /\ Len(out) * W >= N
           /\ (Len(out) - 1) * W < N
           /\ \A j \in 1..(Len(out) - 1) : Len(wordsOf[j]) = W
           /\ Len(out) >= 1 => Len(wordsOf[Len(out)]) \in 1..W
           /\ Concat(wordsOf) = words
           /\ N = 0 => out = << >>

C16_Witness ==
    /\ ct_result # << >>
    /\ ct_chunk_size = 2
    /\ Len(split(ct_text)) = 3
    /\ Len(ct_result[1]) = 2
    /\ \E i \in 1..Len(ct_text) : ct_text[i] = "\n"

\* user_history.get(uid, [])
HistoryOf(uh, uid) == IF uid \in DOMAIN uh THEN uh[uid] ELSE << >>

\* the last min(3, n) of the n questions a user asked
LastAsked(all, uid) ==
    LET own == HistoryOf(all, uid)
        n == Len(own)
    IN  SubSeq(own, IF n > 3 THEN n - 2 ELSE 1, n)

\* C17: after every handler run, the history of each user is the last
\* min(3, n) of the n questions that user asked with /ask, in the order asked;
\* the run changes the history of no other user; and /ask without arguments,
\* /summarize and /help change no history.
C17_RollingHistory ==
    [][ /\ \A u \in Users :
             HistoryOf(user_history', u) = LastAsked(asked', u)
        /\ \A u \in Users :
             (u # reply'[1].uid
                \/ reply'[1].kind \in { "usage", "no_recent", "summary", "help" })
             => HistoryOf(user_history', u) = HistoryOf(user_history, u) ]_vars

C17_Witness ==
    /\ 1 \in DOMAIN asked
    /\ 2 \in DOMAIN asked
    /\ Len(asked[1]) = 4
    /\ asked[1][1] # asked[1][2]
    /\ Len(user_history[1]) = 3
    /\ Len(user_history[2]) = 1
    /\ reply # << >>
    /\ reply[1].kind = "summary"
    /\ reply[1].uid = 2

\* C18: when the query of /ask returned a list, then: if the list is empty
\* the handler answers that nothing was found and does not call the language
\* model; if not, the results put in the prompt are the results of the list
\* that score at least 0.50, in the list's order, when there is one, and else
\* one result of the list, of the highest score in it; never none.
C18_GroundingNeverEmpty ==
    (reply # << >> /\ reply[1].cmd = "ask" /\ reply[1].kind # "usage"
        /\ ret # << >> /\ ret[1].kind = "return")
    => LET got == ret[1].results
           used == reply[1].context
           high == SelectSeq(got, LAMBDA r :
                                4 * r.score[1] * r.score[1] >= r.score[2])
       IN  IF got = << >>
           THEN /\ reply[1].kind = "none"
                /\ reply[1].llmCalls = 0
           ELSE /\ reply[1].kind = "answer"
                /\ used # << >>
                /\ IF high # << >>
                   THEN used = high
                   ELSE /\ Len(used) = 1
                        /\ \E i \in 1..Len(got) : used[1] = got[i]
                        /\ \A i \in 1..Len(got) :
                             ~ScoreLess(used[1].score, got[i].score)

C18_Witness ==
    /\ reply # << >>
    /\ reply[1].kind = "answer"
    /\ ret # << >>
    /\ Len(ret[1].results) = 2
    /\ ScoreLess(ret[1].results[2].score, ret[1].results[1].score)
    /\ \A i \in 1..2 : ~ScoreAtLeastHalf(ret[1].results[i].score)
    /\ Len(reply[1].context) = 1

=============================================================================
